---- MODULE Spec2Model ----
(***************************************************************************)
(* habit-tracker-pro: the habit synchronization store (hooks/useHabits),   *)
(* the habit repository (services/habitService, kept in                    *)
(* config/firebaseConfig.ts) and the remote document store they talk to.   *)
(*                                                                         *)
(* The store's state is the React state of HabitsProvider.  Every async    *)
(* store operation is a task that suspends at its awaits; each segment     *)
(* between two awaits is one action.  The remote store processes a         *)
(* request in a step of its own, so a response and a subscription          *)
(* snapshot can reach the client in either order.  The session store        *)
(* (hooks/useAuth) and the identity provider are modelled the same way,     *)
(* in the variable auth and the specification AuthSpec.                     *)
(***************************************************************************)
EXTENDS Integers, Sequences, FiniteSets, Bags, TLC

\* ------------------------------------------------------------------ bounds
MaxCalls == 2      \* store / repository calls issued by the presentation layer
MaxSubs == 2       \* subscriptions opened over the run
MaxQueue == 2      \* snapshots a listener can have pending
MaxIds == 2        \* document ids the remote store hands out
MaxLen == 2        \* length of the strings drawn for the repository round trip

\* ------------------------------------------------------------------ values
Users == {"u1", "u2"}
NoUser == "none"
Null == "null"
Dates == {"2024-01-01"}
Ids == 1 .. MaxIds
Chars == {" ", "a"}
Undef == <<"undefined">>
Frequencies == {"daily", "weekly", "monthly"}

Range(s) == {s[i] : i \in DOMAIN s}

RECURSIVE Reverse(_)
Reverse(s) == IF s = <<>> THEN <<>> ELSE Append(Reverse(Tail(s)), Head(s))

RECURSIVE TrimStart(_)
TrimStart(s) == IF s # <<>> /\ Head(s) = " " THEN TrimStart(Tail(s)) ELSE s

\* String.prototype.trim on a string held as a sequence of characters
Trim(s) == Reverse(TrimStart(Reverse(TrimStart(s))))

RECURSIVE Filter(_, _)
Filter(s, d) ==
  IF s = <<>> THEN <<>>
  ELSE IF Head(s) = d THEN Filter(Tail(s), d)
       ELSE <<Head(s)>> \o Filter(Tail(s), d)

Includes(s, d) == d \in Range(s)

\* ------------------------------------------------------------------ state
VARIABLES
  mounted,     \* HabitsProvider's first effect has run
  user,        \* useAuth().user as HabitsProvider sees it (uid or NoUser)
  habits,      \* useState<Habit[]>
  loading,     \* useState(true)
  error,       \* useState<string | null>
  remote,      \* users/{uid}/habits: per user, the documents in creation order
  nextId,      \* next document id the remote store hands out
  listeners,   \* onSnapshot listeners of the remote store: handle -> [uid, queue]
  nSub,        \* subscriptions opened so far (the last handle)
  unsub,       \* the handle the effect's cleanup releases (0: none)
  ops,         \* bag of suspended store tasks
  rtog,        \* the repository toggleHabitCompletion call in flight
  event,       \* what the latest step did to a call: called, caught, event
  tog,         \* the run of back-to-back toggleCompletion calls just made
  calls,       \* calls issued so far
  auth         \* AuthProvider: its React state, its suspended calls, and the
               \* identity provider it talks to

vars == <<mounted, user, habits, loading, error, remote, nextId, listeners,
          nSub, unsub, ops, rtog, event, tog, calls, auth>>

storeVars == <<habits, loading, error>>
remoteVars == <<remote, nextId, listeners>>
sessionVars == <<mounted, user, nSub, unsub, auth>>
habitVars == <<mounted, user, nSub, unsub, habits, loading, error, remote,
               nextId, listeners, ops, rtog>>

\* ------------------------------------------------------ habit repository
ServerTimestamp == "serverTimestamp"
IsoString == "isoString"
LocalDate == "localDate"

\* data.description || ''
OrEmpty(s) == IF s = Undef THEN <<>> ELSE s

\* mapDocToHabit: a Timestamp becomes an ISO string, a missing description ''
mapDocToHabit(id, data) ==
  [id |-> id,
   userId |-> data.userId,
   title |-> data.title,
   description |-> OrEmpty(data.description),
   frequency |-> data.frequency,
   createdAt |-> IF data.createdAt = ServerTimestamp THEN IsoString
                 ELSE data.createdAt,
   updatedAt |-> IF data.updatedAt = ServerTimestamp THEN IsoString
                 ELSE data.updatedAt,
   completedDates |-> data.completedDates]

\* (mutation of HabitData: the title is stored as typed)
HabitDataUntrimmed(userId, input) ==
  [userId |-> userId,
   title |-> input.title,
   description |-> IF input.description = Undef THEN <<>>
                   ELSE Trim(input.description),
   frequency |-> input.frequency,
   completedDates |-> <<>>]

\* the habitData object of createHabit: trimmed title and description, no dates
HabitData(userId, input) ==
  [userId |-> userId,
   title |-> Trim(input.title),
   description |-> IF input.description = Undef THEN <<>>
                   ELSE Trim(input.description),
   frequency |-> input.frequency,
   completedDates |-> <<>>]

\* the document addDoc stores under the id the remote store assigns
NewDoc(id, userId, input) ==
  [id |-> id, createdAt |-> ServerTimestamp, updatedAt |-> ServerTimestamp]
    @@ HabitData(userId, input)

\* the Habit createHabit returns: the store's id, the device's clock
CreatedHabit(id, userId, input) ==
  [id |-> id, createdAt |-> LocalDate, updatedAt |-> LocalDate]
    @@ HabitData(userId, input)

\* getHabits: orderBy('createdAt', 'desc'), each document mapped
getHabits(rem, userId) ==
  LET docs == Reverse(rem[userId])
  IN [i \in 1 .. Len(docs) |-> mapDocToHabit(docs[i].id, docs[i])]

HasDoc(rem, userId, id) == \E i \in DOMAIN rem[userId] : rem[userId][i].id = id

DocOf(rem, userId, id) ==
  rem[userId][CHOOSE i \in DOMAIN rem[userId] : rem[userId][i].id = id]

\* updateDoc of one document: the fields given replace the stored ones
PatchDoc(rem, userId, id, fields) ==
  [rem EXCEPT ![userId] =
     [i \in DOMAIN @ |->
        IF @[i].id = id
        THEN [f \in DOMAIN @[i] |->
                IF f \in DOMAIN fields THEN fields[f] ELSE @[i][f]]
        ELSE @[i]]]

\* deleteDoc
RemoveDoc(rem, userId, id) ==
  [rem EXCEPT ![userId] = SelectSeq(@, LAMBDA doc : doc.id # id)]

\* (mutation of UpdateData: the undefined values are left in)
UpdateDataWithUndefined(updates) == updates @@ [updatedAt |-> ServerTimestamp]

\* updateHabit's updateData: the updates without their undefined values,
\* plus a server-time updatedAt
IsUndefined(f, v) == IF f = "frequency" THEN v = "undefined" ELSE v = Undef

UpdateData(updates) ==
  [f \in {g \in DOMAIN updates : ~IsUndefined(g, updates[g])} |-> updates[f]]
    @@ [updatedAt |-> ServerTimestamp]

\* toggleHabitCompletion: the array written for the array read
NewCompletedDates(completedDates, date) ==
  LET dateIndex == IF Includes(completedDates, date) THEN 0 ELSE -1
  IN IF dateIndex < 0 THEN Filter(completedDates, date)
     ELSE Append(completedDates, date)

\* ------------------------------------------------------------ store errors
NoCode == "(none)"

StoreErrors == {[code |-> "unavailable", message |-> "backend unreachable"]}

NotFound == [code |-> "not-found", message |-> "no document to update"]

\* a FirestoreError of each code the switch names and of one it does not, with
\* and without a message
ErrorCodes ==
  {"permission-denied", "not-found", "already-exists", "resource-exhausted",
   "unavailable", "cancelled"}

FirestoreErrors ==
  {[code |-> c, message |-> m] : c \in ErrorCodes, m \in {"", "request cancelled"}}

\* (mutation of handleFirestoreError: the default case keeps the generic
\* message)
handleFirestoreErrorGenericDefault(err, operation) ==
  LET fallback == "Failed to " \o operation \o ". Please try again."
  IN IF err.code = NoCode THEN fallback
     ELSE CASE err.code = "permission-denied" ->
                 "You do not have permission to perform this action."
            [] err.code = "not-found" -> "The requested item was not found."
            [] err.code = "already-exists" -> "This item already exists."
            [] err.code = "resource-exhausted" ->
                 "Too many requests. Please try again later."
            [] err.code = "unavailable" ->
                 "Service temporarily unavailable. Please check your connection."
            [] OTHER -> fallback

handleFirestoreError(err, operation) ==
  LET fallback == "Failed to " \o operation \o ". Please try again."
  IN IF err.code = NoCode THEN fallback
     ELSE CASE err.code = "permission-denied" ->
                 "You do not have permission to perform this action."
            [] err.code = "not-found" -> "The requested item was not found."
            [] err.code = "already-exists" -> "This item already exists."
            [] err.code = "resource-exhausted" ->
                 "Too many requests. Please try again later."
            [] err.code = "unavailable" ->
                 "Service temporarily unavailable. Please check your connection."
            [] OTHER -> IF err.message # "" THEN err.message ELSE fallback

\* the operation name each service function hands to handleFirestoreError
Operation(kind) ==
  CASE kind = "create" -> "create habit"
    [] kind = "update" -> "update habit"
    [] kind = "delete" -> "delete habit"
    [] kind = "refresh" -> "get habits"
    [] OTHER -> "toggle habit completion"

\* ------------------------------------------------------------ subscription
\* a change of userId's collection reaches every listener on it that has not
\* failed, as a snapshot
Notify(ls, rem, userId) ==
  [h \in DOMAIN ls |->
     IF ls[h].uid = userId /\ ls[h].live
     THEN [ls[h] EXCEPT !.queue = Append(@, getHabits(rem, userId))]
     ELSE ls[h]]

CanNotify(userId) ==
  \A h \in DOMAIN listeners :
    listeners[h].uid = userId => Len(listeners[h].queue) < MaxQueue

\* subscribeToHabits: a new listener, which is first sent the current list
Subscribe(ls, rem, handle, userId) ==
  [h \in DOMAIN ls \cup {handle} |->
     IF h = handle
     THEN [uid |-> userId, queue |-> <<getHabits(rem, userId)>>, live |-> TRUE]
     ELSE ls[h]]

\* (mutation of Unsubscribe: the listener is not taken off the query, so what
\* it still had to deliver keeps coming)
UnsubscribeLeavesListener(ls, handle) == ls

\* the unsubscribe function onSnapshot returned
Unsubscribe(ls, handle) == [h \in DOMAIN ls \ {handle} |-> ls[h]]

\* ------------------------------------------------- store: pure list edits
\* (mutation of MergeUpdates: both timestamps are stamped with the device's
\* clock)
MergeUpdatesStampingBoth(prev, id, updates) ==
  [i \in DOMAIN prev |->
     IF prev[i].id = id
     THEN [f \in DOMAIN prev[i] \cup DOMAIN updates |->
             IF f \in {"updatedAt", "createdAt"} THEN LocalDate
             ELSE IF f \in DOMAIN updates THEN updates[f] ELSE prev[i][f]]
     ELSE prev[i]]

\* updateHabit's optimistic map: { ...habit, ...updates, updatedAt: new Date() }
MergeUpdates(prev, id, updates) ==
  [i \in DOMAIN prev |->
     IF prev[i].id = id
     THEN [f \in DOMAIN prev[i] \cup DOMAIN updates |->
             IF f = "updatedAt" THEN LocalDate
             ELSE IF f \in DOMAIN updates THEN updates[f] ELSE prev[i][f]]
     ELSE prev[i]]

\* deleteHabit's optimistic filter
WithoutHabit(prev, id) == SelectSeq(prev, LAMBDA habit : habit.id # id)

\* (mutation of ToggledDates: the date is appended whether or not it is there)
ToggledDatesAppendOnly(completedDates, date) == Append(completedDates, date)

\* toggleCompletion's newCompletedDates for one habit
ToggledDates(completedDates, date) ==
  IF Includes(completedDates, date) THEN Filter(completedDates, date)
  ELSE Append(completedDates, date)

\* (mutation of ToggleIn: the test of the id is missing)
ToggleInAnyHabit(prev, id, date) ==
  [i \in DOMAIN prev |->
     [prev[i] EXCEPT !.completedDates = ToggledDates(@, date)]]

\* toggleCompletion's map over the list
ToggleIn(prev, id, date) ==
  [i \in DOMAIN prev |->
     IF prev[i].id # id THEN prev[i]
     ELSE [prev[i] EXCEPT !.completedDates = ToggledDates(@, date)]]

\* createHabit's prepend
Prepend(habit, prev) == <<habit>> \o prev

\* ------------------------------------------------------------------ tasks
NoInput == [title |-> <<>>]

Task(kind, phase, uid, id, input) ==
  [kind |-> kind, phase |-> phase, reply |-> "pending", uid |-> uid, id |-> id,
   input |-> input, msg |-> Null, rmsg |-> Null, data |-> <<>>]

\* status: "called" (the call ran up to its await), "caught" (its catch ran up
\* to the rollback's await), "fulfilled" or "rejected" (its promise settled)
Event(kind, id, status, msg, resync, data) ==
  [kind |-> kind, id |-> id, status |-> status, msg |-> msg, resync |-> resync,
   data |-> data]

NoEvent == Event("none", 0, "none", Null, "none", <<>>)

NoToggle == [n |-> 0]
IdleToggle == [phase |-> "idle"]

Put(bag, t) == bag (+) SetToBag({t})
Take(bag, t) == bag (-) SetToBag({t})
Pending == BagToSet(ops)

NotLoggedIn(kind) ==
  CASE kind = "create" -> "You must be logged in to create a habit"
    [] kind = "update" -> "You must be logged in to update habits"
    [] kind = "delete" -> "You must be logged in to delete a habit"
    [] OTHER -> "You must be logged in to track a habit"

\* the inputs the presentation layer hands to the store
Inputs ==
  {[title |-> <<" ", "a">>, description |-> Undef, frequency |-> "daily"]}

Updates == {[title |-> <<"a", "a">>]}

\* Partial<HabitInput>: any of the three fields, given a value or undefined
PartialInputs ==
  {[f \in D |-> CASE f = "title" -> <<"a", "a">>
                  [] f = "description" -> Undef
                  [] OTHER -> "weekly"] :
     D \in SUBSET {"title", "description", "frequency"}}

\* ------------------------------------------------------------ AuthProvider
\* useState(null), useState(true), useState(null); no call suspended; nobody
\* signed in at the identity provider, no listener on it yet
SignedOut ==
  [user |-> NoUser, loading |-> TRUE, error |-> Null, ops |-> EmptyBag,
   idp |-> NoUser, subscribed |-> FALSE, changes |-> <<>>]

AuthKinds == {"signUp", "signIn", "signOut"}

AuthErrors ==
  {[code |-> "auth/network-request-failed", message |-> "network error"]}

\* authService.handleAuthError
handleAuthError(err) ==
  IF err.code = NoCode THEN err.message
  ELSE CASE err.code = "auth/email-already-in-use" ->
              "This email is already registered. Please sign in instead."
         [] err.code = "auth/invalid-email" ->
              "Please enter a valid email address."
         [] err.code = "auth/operation-not-allowed" ->
              "Email/password accounts are not enabled. Please contact support."
         [] err.code = "auth/weak-password" ->
              "Password should be at least 6 characters long."
         [] err.code = "auth/user-disabled" ->
              "This account has been disabled. Please contact support."
         [] err.code = "auth/user-not-found" ->
              "No account found with this email. Please sign up first."
         [] err.code = "auth/wrong-password" ->
              "Incorrect password. Please try again."
         [] err.code = "auth/invalid-credential" ->
              "Invalid email or password. Please check and try again."
         [] err.code = "auth/too-many-requests" ->
              "Too many failed attempts. Please try again later."
         [] err.code = "auth/network-request-failed" ->
              "Network error. Please check your internet connection."
         [] OTHER -> err.message

AuthTask(kind, uid) == [kind |-> kind, uid |-> uid, reply |-> "pending", rmsg |-> Null]

AuthPending == BagToSet(auth.ops)

\* ------------------------------------------------------------------- Init
InitialDates == {<<>>, <<"2024-01-01">>}

Init ==
  /\ mounted = FALSE
  /\ user = NoUser
  /\ habits = <<>>
  /\ loading = TRUE
  /\ error = Null
  /\ \E cd \in InitialDates :
       remote = [u \in Users |->
                   IF u = "u1"
                   THEN <<[id |-> 1, userId |-> "u1", title |-> <<"a">>,
                           description |-> <<>>, frequency |-> "daily",
                           createdAt |-> ServerTimestamp,
                           updatedAt |-> ServerTimestamp,
                           completedDates |-> cd]>>
                   ELSE <<>>]
  /\ nextId = 2
  /\ listeners = <<>>
  /\ nSub = 0
  /\ unsub = 0
  /\ ops = EmptyBag
  /\ rtog = IdleToggle
  /\ event = NoEvent
  /\ tog = NoToggle
  /\ calls = 0
  /\ auth = SignedOut

\* ------------------------------------------------ session and subscription
\* the effect's first run, with no user yet
Mount ==
  /\ ~mounted
  /\ mounted' = TRUE
  /\ habits' = <<>>
  /\ loading' = FALSE
  /\ tog' = NoToggle
  /\ event' = NoEvent
  /\ UNCHANGED <<user, error, remoteVars, nSub, unsub, ops, rtog, calls, auth>>

\* the snapshots listener handle still had to deliver
Undelivered(ls, handle) == IF handle \in DOMAIN ls THEN ls[handle].queue ELSE <<>>

\* (mutation of SessionChange: the effect returns no cleanup, so the listener
\* of the previous user stays)
SessionChangeWithoutCleanup(u) ==
  /\ mounted
  /\ ~(u = NoUser /\ user = NoUser)
  /\ user' = u
  /\ IF u = NoUser
     THEN /\ habits' = <<>>
          /\ loading' = FALSE
          /\ listeners' = listeners
          /\ unsub' = 0
          /\ nSub' = nSub
     ELSE /\ nSub < MaxSubs
          /\ loading' = TRUE
          /\ habits' = habits
          /\ listeners' = Subscribe(listeners, remote, nSub + 1, u)
          /\ unsub' = nSub + 1
          /\ nSub' = nSub + 1
  /\ tog' = NoToggle
  /\ event' = Event("session", unsub, "fulfilled", Null, "none", <<>>)
  /\ UNCHANGED <<mounted, error, remote, nextId, ops, rtog, calls, auth>>

\* useAuth hands HabitsProvider another user object (or null): the effect's
\* cleanup releases the subscription, then the effect runs for the new user
SessionChange(u) ==
  /\ mounted
  /\ ~(u = NoUser /\ user = NoUser)
  /\ user' = u
  /\ LET released == IF unsub = 0 THEN listeners
                     ELSE Unsubscribe(listeners, unsub)
     IN IF u = NoUser
        THEN /\ habits' = <<>>
             /\ loading' = FALSE
             /\ listeners' = released
             /\ unsub' = 0
             /\ nSub' = nSub
        ELSE /\ nSub < MaxSubs
             /\ loading' = TRUE
             /\ habits' = habits
             /\ listeners' = Subscribe(released, remote, nSub + 1, u)
             /\ unsub' = nSub + 1
             /\ nSub' = nSub + 1
  /\ tog' = NoToggle
  /\ event' = Event("session", unsub, "fulfilled", Null, "none",
                    Undelivered(listeners, unsub))
  /\ UNCHANGED <<mounted, error, remote, nextId, ops, rtog, calls, auth>>

\* (mutation of DeliverSnapshot: the snapshot's habits are put in front of the
\* entries the list already has under other ids)
DeliverSnapshotMerging(h) ==
  /\ h \in DOMAIN listeners
  /\ listeners[h].queue # <<>>
  /\ LET snapshot == Head(listeners[h].queue)
     IN habits' = snapshot \o
                    SelectSeq(habits, LAMBDA habit :
                                \A i \in DOMAIN snapshot : snapshot[i].id # habit.id)
  /\ loading' = FALSE
  /\ listeners' = [listeners EXCEPT ![h].queue = Tail(@)]
  /\ tog' = NoToggle
  /\ event' = Event("snapshot", h, "fulfilled", Null, "none",
                    <<Head(listeners[h].queue)>>)
  /\ UNCHANGED <<sessionVars, error, remote, nextId, ops, rtog, calls>>

\* the onSnapshot callback of listener h runs with its oldest pending snapshot
DeliverSnapshot(h) ==
  /\ h \in DOMAIN listeners
  /\ listeners[h].queue # <<>>
  /\ habits' = Head(listeners[h].queue)
  /\ loading' = FALSE
  /\ listeners' = [listeners EXCEPT ![h].queue = Tail(@)]
  /\ tog' = NoToggle
  /\ event' = Event("snapshot", h, "fulfilled", Null, "none",
                    <<Head(listeners[h].queue)>>)
  /\ UNCHANGED <<sessionVars, error, remote, nextId, ops, rtog, calls>>

\* the query of listener h fails: onSnapshot's error callback logs and throws
\* handleFirestoreError's Error, which nothing catches; onUpdate is not
\* called, and the listener gets no further snapshot
SubscriptionError(h, err) ==
  /\ h \in DOMAIN listeners /\ listeners[h].live
  /\ listeners' = [listeners EXCEPT ![h].live = FALSE, ![h].queue = <<>>]
  /\ event' = Event("subscription", h, "rejected",
                    handleFirestoreError(err, "subscribe to habits"), "none",
                    <<>>)
  /\ tog' = NoToggle
  /\ UNCHANGED <<sessionVars, storeVars, remote, nextId, ops, rtog, calls>>

\* ----------------------------------------------------- store: the calls
\* (mutation of Refuse: setError(null) runs before the check of the user)
RefuseAfterClearingError(kind, id) ==
  /\ event' = Event(kind, id, "rejected", NotLoggedIn(kind), "none", <<>>)
  /\ error' = Null
  /\ UNCHANGED <<habits, loading, ops>>

\* a call made with no user throws before anything else happens
Refuse(kind, id) ==
  /\ event' = Event(kind, id, "rejected", NotLoggedIn(kind), "none", <<>>)
  /\ UNCHANGED <<storeVars, ops>>

\* (mutation of CreateCall: the habit is shown before the store has answered)
CreateCallOptimistic(input) ==
  /\ mounted /\ calls < MaxCalls
  /\ calls' = calls + 1
  /\ IF user = NoUser THEN Refuse("create", 0)
     ELSE /\ error' = Null
          /\ habits' = <<CreatedHabit(0, user, input)>> \o habits
          /\ ops' = Put(ops, Task("create", "call", user, 0, input))
          /\ event' = Event("create", 0, "called", Null, "none", <<input>>)
          /\ UNCHANGED loading
  /\ tog' = NoToggle
  /\ UNCHANGED <<sessionVars, remoteVars, rtog>>

\* createHabit up to its await: setError(null), habitService.createHabit sent
CreateCall(input) ==
  /\ mounted /\ calls < MaxCalls
  /\ calls' = calls + 1
  /\ IF user = NoUser THEN Refuse("create", 0)
     ELSE /\ error' = Null
          /\ ops' = Put(ops, Task("create", "call", user, 0, input))
          /\ event' = Event("create", 0, "called", Null, "none", <<input>>)
          /\ UNCHANGED <<habits, loading>>
  /\ tog' = NoToggle
  /\ UNCHANGED <<sessionVars, remoteVars, rtog>>

\* updateHabit up to its await: setError(null), the optimistic map, then
\* habitService.updateHabit sent
UpdateCall(id, updates) ==
  /\ mounted /\ calls < MaxCalls
  /\ calls' = calls + 1
  /\ IF user = NoUser THEN Refuse("update", id)
     ELSE /\ error' = Null
          /\ habits' = MergeUpdates(habits, id, updates)
          /\ ops' = Put(ops, Task("update", "call", user, id, updates))
          /\ event' = Event("update", id, "called", Null, "none", <<updates>>)
          /\ UNCHANGED loading
  /\ tog' = NoToggle
  /\ UNCHANGED <<sessionVars, remoteVars, rtog>>

\* (mutation of DeleteCall: the entry is left in the list until the repository
\* has answered)
DeleteCallWithoutEdit(id) ==
  /\ mounted /\ calls < MaxCalls
  /\ calls' = calls + 1
  /\ IF user = NoUser THEN Refuse("delete", id)
     ELSE /\ error' = Null
          /\ ops' = Put(ops, Task("delete", "call", user, id, NoInput))
          /\ event' = Event("delete", id, "called", Null, "none", <<>>)
          /\ UNCHANGED <<habits, loading>>
  /\ tog' = NoToggle
  /\ UNCHANGED <<sessionVars, remoteVars, rtog>>

\* deleteHabit up to its await: setError(null), the optimistic filter, then
\* habitService.deleteHabit sent
DeleteCall(id) ==
  /\ mounted /\ calls < MaxCalls
  /\ calls' = calls + 1
  /\ IF user = NoUser THEN Refuse("delete", id)
     ELSE /\ error' = Null
          /\ habits' = WithoutHabit(habits, id)
          /\ ops' = Put(ops, Task("delete", "call", user, id, NoInput))
          /\ event' = Event("delete", id, "called", Null, "none", <<>>)
          /\ UNCHANGED loading
  /\ tog' = NoToggle
  /\ UNCHANGED <<sessionVars, remoteVars, rtog>>

\* where date stands in the documents of id kept for userId
RemoteHas(rem, userId, id, date) ==
  \E i \in DOMAIN rem[userId] :
    rem[userId][i].id = id /\ Includes(rem[userId][i].completedDates, date)

\* for each entry of the list, whether it is habit id with date completed
LocalHas(list, id, date) ==
  [i \in DOMAIN list |-> list[i].id = id /\ Includes(list[i].completedDates, date)]

\* toggleCompletion: it awaits nothing, so the whole call is one step
ToggleCompletion(id, date) ==
  /\ mounted /\ calls < MaxCalls
  /\ calls' = calls + 1
  /\ IF user = NoUser
     THEN /\ Refuse("toggle", id)
          /\ tog' = NoToggle
     ELSE /\ error' = Null
          /\ habits' = ToggleIn(habits, id, date)
          /\ event' = Event("toggle", id, "fulfilled", Null, "none", <<>>)
          /\ tog' = IF tog.n = 1 /\ tog.id = id /\ tog.date = date
                    THEN [tog EXCEPT !.n = 2]
                    ELSE [n |-> 1, id |-> id, date |-> date, uid |-> user,
                          present |-> \E i \in DOMAIN habits : habits[i].id = id,
                          stored |-> HasDoc(remote, user, id),
                          local |-> LocalHas(habits, id, date),
                          persisted |-> RemoteHas(remote, user, id, date)]
          /\ UNCHANGED <<loading, ops>>
  /\ UNCHANGED <<sessionVars, remoteVars, rtog>>

\* refreshHabits called by the presentation layer, up to its await
RefreshCall ==
  /\ mounted /\ calls < MaxCalls
  /\ calls' = calls + 1
  /\ IF user = NoUser
     THEN /\ event' = Event("refresh", 0, "fulfilled", Null, "none", <<>>)
          /\ UNCHANGED <<storeVars, ops>>
     ELSE /\ loading' = TRUE
          /\ ops' = Put(ops, Task("refresh", "refresh", user, 0, NoInput))
          /\ event' = Event("refresh", 0, "called", Null, "none", <<>>)
          /\ UNCHANGED <<habits, error>>
  /\ tog' = NoToggle
  /\ UNCHANGED <<sessionVars, remoteVars, rtog>>

\* clearError: setError(null)
ClearError ==
  /\ mounted
  /\ error' = Null
  /\ event' = Event("clearError", 0, "fulfilled", Null, "none", <<>>)
  /\ tog' = NoToggle
  /\ UNCHANGED <<sessionVars, remoteVars, habits, loading, ops, rtog, calls>>

\* -------------------------------------------- the remote store's replies
Replied(t, data) == [t EXCEPT !.reply = "ok", !.data = data]

Failed(t, err) ==
  [t EXCEPT !.reply = "failed",
            !.rmsg = handleFirestoreError(err, Operation(
                       IF t.phase = "refresh" THEN "refresh" ELSE t.kind))]

Awaiting(t) == t \in Pending /\ t.reply = "pending"

\* addDoc succeeds: the document is stored under a fresh id, createHabit
\* has its return value
ServeCreate(t) ==
  /\ Awaiting(t) /\ t.kind = "create" /\ t.phase = "call"
  /\ nextId <= MaxIds
  /\ CanNotify(t.uid)
  /\ remote' = [remote EXCEPT ![t.uid] = Append(@, NewDoc(nextId, t.uid, t.input))]
  /\ nextId' = nextId + 1
  /\ listeners' = Notify(listeners, remote', t.uid)
  /\ ops' = Put(Take(ops, t), Replied(t, <<CreatedHabit(nextId, t.uid, t.input)>>))
  /\ tog' = NoToggle
  /\ event' = NoEvent
  /\ UNCHANGED <<sessionVars, storeVars, rtog, calls>>

\* updateDoc: patches the document, or fails when there is none
ServeUpdate(t) ==
  /\ Awaiting(t) /\ t.kind = "update" /\ t.phase = "call"
  /\ IF HasDoc(remote, t.uid, t.id)
     THEN /\ CanNotify(t.uid)
          /\ remote' = PatchDoc(remote, t.uid, t.id, UpdateData(t.input))
          /\ listeners' = Notify(listeners, remote', t.uid)
          /\ ops' = Put(Take(ops, t), Replied(t, <<>>))
     ELSE /\ ops' = Put(Take(ops, t), Failed(t, NotFound))
          /\ UNCHANGED <<remote, listeners>>
  /\ tog' = NoToggle
  /\ event' = NoEvent
  /\ UNCHANGED <<sessionVars, storeVars, nextId, rtog, calls>>

\* deleteDoc: succeeds whether or not the document exists
ServeDelete(t) ==
  /\ Awaiting(t) /\ t.kind = "delete" /\ t.phase = "call"
  /\ IF HasDoc(remote, t.uid, t.id)
     THEN /\ CanNotify(t.uid)
          /\ remote' = RemoveDoc(remote, t.uid, t.id)
          /\ listeners' = Notify(listeners, remote', t.uid)
     ELSE UNCHANGED <<remote, listeners>>
  /\ ops' = Put(Take(ops, t), Replied(t, <<>>))
  /\ tog' = NoToggle
  /\ event' = NoEvent
  /\ UNCHANGED <<sessionVars, storeVars, nextId, rtog, calls>>

\* getDocs of refreshHabits' getHabits
ServeGet(t) ==
  /\ Awaiting(t) /\ t.phase = "refresh"
  /\ ops' = Put(Take(ops, t), Replied(t, getHabits(remote, t.uid)))
  /\ tog' = NoToggle
  /\ event' = NoEvent
  /\ UNCHANGED <<sessionVars, storeVars, remoteVars, rtog, calls>>

\* the remote store rejects the request; the service throws
\* handleFirestoreError's Error
ServeFail(t, err) ==
  /\ Awaiting(t)
  /\ ops' = Put(Take(ops, t), Failed(t, err))
  /\ tog' = NoToggle
  /\ event' = NoEvent
  /\ UNCHANGED <<sessionVars, storeVars, remoteVars, rtog, calls>>

\* ------------------------------------------- store: after the awaits
Resumes(t, kind, phase, reply) ==
  t \in Pending /\ t.kind = kind /\ t.phase = phase /\ t.reply = reply

\* createHabit after a successful await: prepend, return the habit
CreateThen(t) ==
  /\ Resumes(t, "create", "call", "ok")
  /\ habits' = Prepend(t.data[1], habits)
  /\ ops' = Take(ops, t)
  /\ event' = Event("create", t.data[1].id, "fulfilled", Null, "none", t.data)
  /\ tog' = NoToggle
  /\ UNCHANGED <<sessionVars, remoteVars, loading, error, rtog, calls>>

\* (mutation of CreateCatch: the message is thrown but not stored)
CreateCatchDropsError(t) ==
  /\ Resumes(t, "create", "call", "failed")
  /\ ops' = Take(ops, t)
  /\ event' = Event("create", 0, "rejected", t.rmsg, "none", <<>>)
  /\ tog' = NoToggle
  /\ UNCHANGED <<sessionVars, remoteVars, storeVars, rtog, calls>>

\* createHabit's catch: setError(message), throw new Error(message)
CreateCatch(t) ==
  /\ Resumes(t, "create", "call", "failed")
  /\ error' = t.rmsg
  /\ ops' = Take(ops, t)
  /\ event' = Event("create", 0, "rejected", t.rmsg, "none", <<>>)
  /\ tog' = NoToggle
  /\ UNCHANGED <<sessionVars, remoteVars, habits, loading, rtog, calls>>

\* updateHabit / deleteHabit after a successful await: nothing left to do
MutationThen(t) ==
  /\ t \in Pending /\ t.kind \in {"update", "delete"}
  /\ t.phase = "call" /\ t.reply = "ok"
  /\ ops' = Take(ops, t)
  /\ event' = Event(t.kind, t.id, "fulfilled", Null, "none", <<>>)
  /\ tog' = NoToggle
  /\ UNCHANGED <<sessionVars, remoteVars, storeVars, rtog, calls>>

\* the catch of updateHabit / deleteHabit up to its await: setError(message),
\* then refreshHabits() runs up to its own await (its user is the caller's)
MutationCatch(t) ==
  /\ t \in Pending /\ t.kind \in {"update", "delete"}
  /\ t.phase = "call" /\ t.reply = "failed"
  /\ error' = t.rmsg
  /\ loading' = TRUE
  /\ ops' = Put(Take(ops, t),
                [t EXCEPT !.phase = "refresh", !.reply = "pending",
                          !.msg = t.rmsg, !.rmsg = Null])
  /\ tog' = NoToggle
  /\ event' = Event(t.kind, t.id, "caught", t.rmsg, "none", <<>>)
  /\ UNCHANGED <<sessionVars, remoteVars, habits, rtog, calls>>

\* how the task that awaited refreshHabits ends once refreshHabits returned:
\* a rollback re-throws the mutation's message, a plain refresh resolves
AfterRefresh(t, resync) ==
  IF t.kind = "refresh"
  THEN Event("refresh", 0, "fulfilled", Null, resync, t.data)
  ELSE Event(t.kind, t.id, "rejected", t.msg, resync, t.data)

\* (mutation of RefreshThen: the fetched list is not put into the state)
RefreshThenKeepsList(t) ==
  /\ t \in Pending /\ t.phase = "refresh" /\ t.reply = "ok"
  /\ loading' = FALSE
  /\ ops' = Take(ops, t)
  /\ event' = AfterRefresh(t, "ok")
  /\ tog' = NoToggle
  /\ UNCHANGED <<sessionVars, remoteVars, habits, error, rtog, calls>>

\* refreshHabits after a successful await: setHabits(freshHabits), finally
RefreshThen(t) ==
  /\ t \in Pending /\ t.phase = "refresh" /\ t.reply = "ok"
  /\ habits' = t.data
  /\ loading' = FALSE
  /\ ops' = Take(ops, t)
  /\ event' = AfterRefresh(t, "ok")
  /\ tog' = NoToggle
  /\ UNCHANGED <<sessionVars, remoteVars, error, rtog, calls>>

\* refreshHabits' catch: setError(message), finally
RefreshCatch(t) ==
  /\ t \in Pending /\ t.phase = "refresh" /\ t.reply = "failed"
  /\ error' = t.rmsg
  /\ loading' = FALSE
  /\ ops' = Take(ops, t)
  /\ event' = AfterRefresh(t, "failed")
  /\ tog' = NoToggle
  /\ UNCHANGED <<sessionVars, remoteVars, habits, rtog, calls>>

\* --------------------------------- repository: toggleHabitCompletion
\* the call up to its updateDoc: getDocs reads the document, the new array is
\* computed from what was read; no document: 'Habit not found' is thrown and
\* wrapped by handleFirestoreError
RepoToggleRead(userId, habitId, date) ==
  /\ mounted /\ calls < MaxCalls
  /\ rtog.phase = "idle"
  /\ calls' = calls + 1
  /\ IF HasDoc(remote, userId, habitId)
     THEN /\ rtog' = [phase |-> "read", uid |-> userId, id |-> habitId,
                      date |-> date,
                      read |-> DocOf(remote, userId, habitId).completedDates]
          /\ event' = NoEvent
     ELSE /\ event' = Event("repoToggle", habitId, "rejected",
                              handleFirestoreError(
                                [code |-> NoCode, message |-> "Habit not found"],
                                Operation("repoToggle")),
                              "none", <<>>)
          /\ UNCHANGED rtog
  /\ tog' = NoToggle
  /\ UNCHANGED <<sessionVars, storeVars, remoteVars, ops>>

\* updateDoc of the toggle: writes the array computed from the earlier read
RepoToggleWrite ==
  /\ rtog.phase = "read"
  /\ IF HasDoc(remote, rtog.uid, rtog.id)
     THEN /\ CanNotify(rtog.uid)
          /\ remote' = PatchDoc(remote, rtog.uid, rtog.id,
                         [completedDates |-> NewCompletedDates(rtog.read, rtog.date),
                          updatedAt |-> ServerTimestamp])
          /\ listeners' = Notify(listeners, remote', rtog.uid)
          /\ event' = Event("repoToggle", rtog.id, "fulfilled", Null, "none",
                              <<<<rtog.date>>, rtog.read,
                                NewCompletedDates(rtog.read, rtog.date)>>)
     ELSE /\ event' = Event("repoToggle", rtog.id, "rejected",
                              handleFirestoreError(NotFound, Operation("repoToggle")),
                              "none", <<>>)
          /\ UNCHANGED <<remote, listeners>>
  /\ rtog' = IdleToggle
  /\ tog' = NoToggle
  /\ UNCHANGED <<sessionVars, storeVars, nextId, ops, calls>>

\* ------------------------------------------------------------------- Next
Next ==
  \/ Mount
  \/ \E u \in Users \cup {NoUser} : SessionChange(u)
  \/ \E h \in DOMAIN listeners : DeliverSnapshot(h)
  \/ \E h \in DOMAIN listeners, err \in StoreErrors : SubscriptionError(h, err)
  \/ \E input \in Inputs : CreateCall(input)
  \/ \E id \in Ids, updates \in Updates : UpdateCall(id, updates)
  \/ \E id \in Ids : DeleteCall(id)
  \/ \E id \in Ids, date \in Dates : ToggleCompletion(id, date)
  \/ RefreshCall
  \/ ClearError
  \/ \E t \in Pending : ServeCreate(t)
  \/ \E t \in Pending : ServeUpdate(t)
  \/ \E t \in Pending : ServeDelete(t)
  \/ \E t \in Pending : ServeGet(t)
  \/ \E t \in Pending, err \in StoreErrors : ServeFail(t, err)
  \/ \E t \in Pending : CreateThen(t)
  \/ \E t \in Pending : CreateCatch(t)
  \/ \E t \in Pending : MutationThen(t)
  \/ \E t \in Pending : MutationCatch(t)
  \/ \E t \in Pending : RefreshThen(t)
  \/ \E t \in Pending : RefreshCatch(t)
  \/ \E u \in Users, id \in Ids, date \in Dates : RepoToggleRead(u, id, date)
  \/ RepoToggleWrite

Spec == Init /\ [][Next]_vars

\* the session, the subscription and the two toggles alone
ToggleNext ==
  \/ Mount
  \/ \E u \in Users \cup {NoUser} : SessionChange(u)
  \/ \E h \in DOMAIN listeners : DeliverSnapshot(h)
  \/ \E id \in Ids, date \in Dates : ToggleCompletion(id, date)
  \/ \E u \in Users, id \in Ids, date \in Dates : RepoToggleRead(u, id, date)
  \/ RepoToggleWrite

ToggleSpec == Init /\ [][ToggleNext]_vars

\* completedDates as earlier days left them, around the date that is toggled
Histories ==
  {<<"2024-01-02", "2024-01-01", "2023-12-31">>, <<"2024-01-02", "2023-12-31">>}

\* Init with such a history in the stored habit
HistoryInit ==
  /\ mounted = FALSE
  /\ user = NoUser
  /\ habits = <<>>
  /\ loading = TRUE
  /\ error = Null
  /\ \E cd \in Histories :
       remote = [u \in Users |->
                   IF u = "u1"
                   THEN <<[id |-> 1, userId |-> "u1", title |-> <<"a">>,
                           description |-> <<>>, frequency |-> "daily",
                           createdAt |-> ServerTimestamp,
                           updatedAt |-> ServerTimestamp,
                           completedDates |-> cd]>>
                   ELSE <<>>]
  /\ nextId = 2
  /\ listeners = <<>>
  /\ nSub = 0
  /\ unsub = 0
  /\ ops = EmptyBag
  /\ rtog = IdleToggle
  /\ event = NoEvent
  /\ tog = NoToggle
  /\ calls = 0
  /\ auth = SignedOut

HistorySpec == HistoryInit /\ [][ToggleNext]_vars

\* the session, the subscription and createHabit alone
CreateNext ==
  \/ Mount
  \/ \E u \in Users \cup {NoUser} : SessionChange(u)
  \/ \E h \in DOMAIN listeners : DeliverSnapshot(h)
  \/ \E input \in Inputs : CreateCall(input)
  \/ \E t \in Pending : ServeCreate(t)
  \/ \E t \in Pending, err \in StoreErrors : ServeFail(t, err)
  \/ \E t \in Pending : CreateThen(t)
  \/ \E t \in Pending : CreateCatch(t)

CreateSpec == Init /\ [][CreateNext]_vars

\* the session, the subscription, createHabit and updateHabit with any
\* Partial<HabitInput>, as long as the repository answers
UpdateNext ==
  \/ Mount
  \/ \E u \in Users \cup {NoUser} : SessionChange(u)
  \/ \E h \in DOMAIN listeners : DeliverSnapshot(h)
  \/ \E input \in Inputs : CreateCall(input)
  \/ \E t \in Pending : ServeCreate(t)
  \/ \E t \in Pending : CreateThen(t)
  \/ \E id \in Ids, updates \in PartialInputs : UpdateCall(id, updates)
  \/ \E t \in Pending : ServeUpdate(t)
  \/ \E t \in Pending : MutationThen(t)

UpdateSpec == Init /\ [][UpdateNext]_vars

\* ------------------------------- repository: createHabit called directly
Strings(n) == UNION {[1 .. k -> Chars] : k \in 0 .. n}

\* inputs with a title that is not empty once trimmed
ValidInputs ==
  {[title |-> t, description |-> Undef, frequency |-> "daily"] :
     t \in {x \in Strings(MaxLen) : Trim(x) # <<>>}}
  \cup
  {[title |-> <<"a">>, description |-> d, frequency |-> "weekly"] :
     d \in Strings(MaxLen)}
  \cup
  {[title |-> <<"a">>, description |-> Undef, frequency |-> f] :
     f \in Frequencies}

\* createHabit(userId, input) when addDoc succeeds
RepoCreate(userId, input) ==
  /\ nextId <= MaxIds
  /\ remote' = [remote EXCEPT ![userId] = Append(@, NewDoc(nextId, userId, input))]
  /\ nextId' = nextId + 1
  /\ listeners' = Notify(listeners, remote', userId)
  /\ event' = Event("repoCreate", nextId, "fulfilled", Null, "none",
                    <<input, CreatedHabit(nextId, userId, input)>>)
  /\ UNCHANGED <<sessionVars, storeVars, ops, rtog, tog, calls>>

\* inputs whose title is empty once trimmed
BlankInputs ==
  {[title |-> t, description |-> Undef, frequency |-> "daily"] :
     t \in {<<>>, <<" ">>}}

\* updates for updateHabit(userId, habitId, updates): any Partial<HabitInput>,
\* or a title that is blank
RepoUpdates == PartialInputs \cup {[title |-> <<" ">>]}

\* createHabit(userId, input) when addDoc fails, whatever the input
RepoCreateFail(userId, err) ==
  /\ event' = Event("repoCreate", 0, "rejected",
                    handleFirestoreError(err, Operation("create")), "none",
                    <<err>>)
  /\ UNCHANGED <<sessionVars, storeVars, remoteVars, ops, rtog, tog, calls>>

\* deleteHabit(userId, habitId) when deleteDoc succeeds
RepoDelete(userId, habitId) ==
  /\ remote' = RemoveDoc(remote, userId, habitId)
  /\ listeners' = Notify(listeners, remote', userId)
  /\ event' = Event("repoDelete", habitId, "fulfilled", Null, "none", <<>>)
  /\ UNCHANGED <<sessionVars, storeVars, nextId, ops, rtog, tog, calls>>

\* updateHabit(userId, habitId, updates) when updateDoc answers: the document
\* is patched with updateData, or there is none and the call throws
RepoUpdate(userId, habitId, updates) ==
  /\ IF HasDoc(remote, userId, habitId)
     THEN /\ remote' = PatchDoc(remote, userId, habitId, UpdateData(updates))
          /\ listeners' = Notify(listeners, remote', userId)
          /\ event' = Event("repoUpdate", habitId, "fulfilled", Null, "none",
                            <<updates, UpdateData(updates),
                              DocOf(remote, userId, habitId)>>)
     ELSE /\ event' = Event("repoUpdate", habitId, "rejected",
                            handleFirestoreError(NotFound, Operation("update")),
                            "none", <<NotFound>>)
          /\ UNCHANGED <<remote, listeners>>
  /\ UNCHANGED <<sessionVars, storeVars, nextId, ops, rtog, tog, calls>>

\* updateHabit(userId, habitId, updates) when updateDoc fails
RepoUpdateFail(userId, err) ==
  /\ event' = Event("repoUpdate", 0, "rejected",
                    handleFirestoreError(err, Operation("update")), "none",
                    <<err>>)
  /\ UNCHANGED <<sessionVars, storeVars, remoteVars, ops, rtog, tog, calls>>

RepoNext ==
  \/ \E u \in Users, input \in ValidInputs \cup BlankInputs : RepoCreate(u, input)
  \/ \E u \in Users, err \in StoreErrors : RepoCreateFail(u, err)
  \/ \E u \in Users, id \in Ids : RepoDelete(u, id)

RepoSpec == Init /\ [][RepoNext]_vars

\* updateHabit called directly, and the calls the remote store fails
RepoUpdateNext ==
  \/ \E u \in Users, id \in Ids, updates \in RepoUpdates : RepoUpdate(u, id, updates)
  \/ \E u \in Users, err \in FirestoreErrors : RepoUpdateFail(u, err)
  \/ \E u \in Users, err \in FirestoreErrors : RepoCreateFail(u, err)

RepoUpdateSpec == Init /\ [][RepoUpdateNext]_vars

\* ------------------------------------------------- AuthProvider: the steps
\* the effect: authService.onAuthStateChanged registers the listener, which is
\* first told who is signed in
AuthMount ==
  /\ ~auth.subscribed
  /\ auth' = [auth EXCEPT !.subscribed = TRUE, !.changes = <<auth.idp>>]
  /\ event' = NoEvent
  /\ tog' = NoToggle
  /\ UNCHANGED <<habitVars, calls>>

\* the listener's callback: setUser(user), setLoading(false)
AuthStateChanged ==
  /\ auth.subscribed /\ auth.changes # <<>>
  /\ auth' = [auth EXCEPT !.user = Head(auth.changes), !.loading = FALSE,
                          !.changes = Tail(auth.changes)]
  /\ event' = Event("authState", 0, "fulfilled", Null, "none", <<>>)
  /\ tog' = NoToggle
  /\ UNCHANGED <<habitVars, calls>>

\* signUp / signIn / signOut up to the await: setError(null),
\* setLoading(true), the call to authService sent (uid: who the credentials
\* belong to; none for signOut)
SignCall(kind, uid) ==
  /\ auth.subscribed /\ calls < MaxCalls
  /\ (kind = "signOut") = (uid = NoUser)
  /\ calls' = calls + 1
  /\ auth' = [auth EXCEPT !.error = Null, !.loading = TRUE,
                          !.ops = Put(auth.ops, AuthTask(kind, uid))]
  /\ event' = Event(kind, 0, "called", Null, "none", <<>>)
  /\ tog' = NoToggle
  /\ UNCHANGED habitVars

\* the identity provider does what was asked, and tells the listener when
\* the signed-in user has changed
IdpAccept(t) ==
  /\ t \in AuthPending /\ t.reply = "pending"
  /\ Len(auth.changes) < MaxQueue
  /\ auth' = [auth EXCEPT
                !.idp = t.uid,
                !.changes = IF t.uid = auth.idp THEN @ ELSE Append(@, t.uid),
                !.ops = Put(Take(auth.ops, t), [t EXCEPT !.reply = "ok"])]
  /\ event' = NoEvent
  /\ tog' = NoToggle
  /\ UNCHANGED <<habitVars, calls>>

\* the identity provider refuses; authService throws handleAuthError's Error
IdpReject(t, err) ==
  /\ t \in AuthPending /\ t.reply = "pending"
  /\ auth' = [auth EXCEPT
                !.ops = Put(Take(auth.ops, t),
                            [t EXCEPT !.reply = "failed",
                                      !.rmsg = handleAuthError(err)])]
  /\ event' = NoEvent
  /\ tog' = NoToggle
  /\ UNCHANGED <<habitVars, calls>>

\* (mutation of SignThen: signOut leaves the user in the state)
SignThenKeepsUser(t) ==
  /\ t \in AuthPending /\ t.reply = "ok"
  /\ auth' = [auth EXCEPT !.user = IF t.kind = "signOut" THEN @ ELSE t.uid,
                          !.loading = FALSE,
                          !.ops = Take(auth.ops, t)]
  /\ event' = Event(t.kind, 0, "fulfilled", Null, "none", <<>>)
  /\ tog' = NoToggle
  /\ UNCHANGED <<habitVars, calls>>

\* after a successful await: setUser(user) (setUser(null) for signOut), then
\* finally: setLoading(false)
SignThen(t) ==
  /\ t \in AuthPending /\ t.reply = "ok"
  /\ auth' = [auth EXCEPT !.user = t.uid, !.loading = FALSE,
                          !.ops = Take(auth.ops, t)]
  /\ event' = Event(t.kind, 0, "fulfilled", Null, "none", <<>>)
  /\ tog' = NoToggle
  /\ UNCHANGED <<habitVars, calls>>

\* (mutation of SignCatch: there is no finally)
SignCatchWithoutFinally(t) ==
  /\ t \in AuthPending /\ t.reply = "failed"
  /\ auth' = [auth EXCEPT !.error = t.rmsg, !.ops = Take(auth.ops, t)]
  /\ event' = Event(t.kind, 0, "rejected", t.rmsg, "none", <<>>)
  /\ tog' = NoToggle
  /\ UNCHANGED <<habitVars, calls>>

\* the catch: setError(err.message), throw err, then finally:
\* setLoading(false)
SignCatch(t) ==
  /\ t \in AuthPending /\ t.reply = "failed"
  /\ auth' = [auth EXCEPT !.error = t.rmsg, !.loading = FALSE,
                          !.ops = Take(auth.ops, t)]
  /\ event' = Event(t.kind, 0, "rejected", t.rmsg, "none", <<>>)
  /\ tog' = NoToggle
  /\ UNCHANGED <<habitVars, calls>>

AuthNext ==
  \/ AuthMount
  \/ AuthStateChanged
  \/ \E kind \in AuthKinds, uid \in Users \cup {NoUser} : SignCall(kind, uid)
  \/ \E t \in AuthPending : IdpAccept(t)
  \/ \E t \in AuthPending, err \in AuthErrors : IdpReject(t, err)
  \/ \E t \in AuthPending : SignThen(t)
  \/ \E t \in AuthPending : SignCatch(t)

AuthSpec == Init /\ [][AuthNext]_vars

\* ================================================================ claims
NoDuplicates(s) == \A i, j \in DOMAIN s : s[i] = s[j] => i = j

\* C1: two toggleCompletion(id, d) calls made one after the other on a habit
\* of the local list leave d completed in it exactly where it was completed
\* before the first call.
ToggleTwiceRestores ==
  (tog.n = 2 /\ tog.present) => LocalHas(habits, tog.id, tog.date) = tog.local

\* C1 witness: the second of two toggles has run on a listed habit that had
\* the date completed.
ToggleTwiceDone ==
  /\ tog.n = 2 /\ tog.present
  /\ TRUE \in Range(tog.local)
  /\ event.kind = "toggle" /\ event.status = "fulfilled"

\* C2 (as claimed): the array toggleHabitCompletion writes lacks the date when
\* the record it read had it, and has the date when the record lacked it.
RepoToggleFlipsDate ==
  (event.kind = "repoToggle" /\ event.status = "fulfilled") =>
    LET date == event.data[1][1]
        read == event.data[2]
        written == event.data[3]
    IN Includes(written, date) = ~Includes(read, date)

\* C3 (as claimed): no habit of the local list and no remote document holds
\* a date twice in completedDates.
NoDuplicateDates ==
  /\ \A i \in DOMAIN habits : NoDuplicates(habits[i].completedDates)
  /\ \A u \in Users : \A i \in DOMAIN remote[u] :
       NoDuplicates(remote[u][i].completedDates)

\* C4 (as claimed): after two back-to-back toggleCompletion(id, d) calls on a
\* stored, listed habit, the persisted completedDates differs from the
\* baseline by exactly one flip of d.
TwoTogglesPersistOneFlip ==
  (tog.n = 2 /\ tog.present /\ tog.stored) =>
    RemoteHas(remote, tog.uid, tog.id, tog.date) # tog.persisted

\* a step in which task t stops being suspended where it was
Leaves(t) == CopiesIn(t, ops') < CopiesIn(t, ops)

LoggedInRejection(kinds) ==
  /\ event.kind \in kinds /\ event.status = "rejected"
  /\ event.msg # NotLoggedIn(event.kind)

\* the catch of updateHabit / deleteHabit has stored the message and started
\* the re-fetch, and the caller's promise is still pending
CaughtThenRefetching ==
  (event.kind \in {"update", "delete"} /\ event.status = "caught") =>
    /\ error = event.msg
    /\ \E t \in Pending :
         /\ t.kind = event.kind /\ t.id = event.id /\ t.msg = event.msg
         /\ t.phase = "refresh" /\ t.reply = "pending"

\* C5 (as claimed): a failed updateHabit / deleteHabit stores the message,
\* re-fetches, replaces the local list with the fetched one, and only then
\* rejects.
RollbackReplacesList ==
  /\ CaughtThenRefetching
  /\ LoggedInRejection({"update", "delete"}) =>
       (event.resync = "ok" /\ habits = event.data)

\* C5 (amended): a failed updateHabit / deleteHabit stores the message, then
\* re-fetches; it rejects only when the re-fetch has ended, and the local
\* list is the fetched one whenever the re-fetch succeeded.
RollbackRefetchesThenRejects ==
  /\ CaughtThenRefetching
  /\ LoggedInRejection({"update", "delete"}) =>
       /\ event.resync \in {"ok", "failed"}
       /\ event.resync = "ok" => habits = event.data

\* C5 witness: an updateHabit whose remote call failed has rejected after a
\* re-fetch that brought back a habit.
RollbackDone ==
  /\ LoggedInRejection({"update"})
  /\ event.resync = "ok" /\ event.data # <<>>

\* C6: when the repository's create call has failed, the step that ends
\* createHabit leaves the list as it is, stores the failure message in error
\* and rejects with that message.
CreateFailureLeavesList ==
  [][\A t \in Pending :
       (t.kind = "create" /\ t.reply = "failed" /\ Leaves(t)) =>
         /\ habits' = habits
         /\ error' = t.rmsg
         /\ event' = Event("create", 0, "rejected", t.rmsg, "none", <<>>)
         /\ t.rmsg \in {handleFirestoreError(e, "create habit") : e \in StoreErrors}]_vars

\* C6 witness: a createHabit has been rejected by the store while the list
\* held a habit.
CreateFailed ==
  /\ LoggedInRejection({"create"})
  /\ habits # <<>>

\* C7 (as claimed): right after createHabit(input) is called with a session,
\* the list shows the new habit at index 0; after a failure error is set.
CreateShowsImmediately ==
  /\ (event.kind = "create" /\ event.status = "called") =>
       /\ habits # <<>>
       /\ habits[1].title = Trim(event.data[1].title)
  /\ LoggedInRejection({"create"}) => error = event.msg

\* C7 (amended): createHabit leaves the list as it is when it is called; it
\* puts the new habit at index 0 only in the step that follows the store's
\* successful answer; when the store refuses, it leaves the list as it is
\* and sets error.
CreatePrependsOnSuccess ==
  [][/\ (event'.kind = "create" /\ event'.status = "called") => habits' = habits
     /\ \A t \in Pending :
          (t.kind = "create" /\ t.reply = "ok" /\ Leaves(t)) =>
            /\ Len(habits') = Len(habits) + 1
            /\ habits'[1] = t.data[1]
            /\ Tail(habits') = habits
     /\ \A t \in Pending :
          (t.kind = "create" /\ t.reply = "failed" /\ Leaves(t)) =>
            (habits' = habits /\ error' # Null)]_vars

\* C7 witness: a createHabit has resolved and its habit stands at index 0
\* before another one.
CreateResolved ==
  /\ event.kind = "create" /\ event.status = "fulfilled"
  /\ Len(habits) > 1
  /\ habits[1] = event.data[1]

\* C9: with no user, createHabit, updateHabit, deleteHabit and
\* toggleCompletion reject with their not-logged-in message, send nothing to
\* the repository and leave habits, loading and error as they are.
NoSessionRefuses ==
  [][(/\ user = NoUser
      /\ calls' = calls + 1
      /\ event'.kind \in {"create", "update", "delete", "toggle"}) =>
       /\ event'.status = "rejected"
       /\ event'.msg = NotLoggedIn(event'.kind)
       /\ UNCHANGED <<habits, loading, error, ops, remote, nextId, listeners>>]_vars

\* C9 witness: a call was refused for want of a user while an error was set.
RefusedWithoutSession ==
  /\ user = NoUser
  /\ event.status = "rejected" /\ event.msg = NotLoggedIn(event.kind)
  /\ error # Null

\* C10 (as claimed): when the user goes from signed in to none, the listener
\* is released, the list is emptied and the store is neither loading nor in
\* error.
SignOutEndsIdle ==
  [][(user # NoUser /\ user' = NoUser) =>
       /\ DOMAIN listeners' = {}
       /\ habits' = <<>>
       /\ ~loading'
       /\ error' = Null]_vars

\* the habits getHabits(userId) returns that were made from this input
Listed(userId, title, description, frequency) ==
  {h \in Range(getHabits(remote, userId)) :
     /\ h.title = title /\ h.description = description
     /\ h.frequency = frequency /\ h.completedDates = <<>>}

\* C8 (as claimed): after a successful createHabit(userId, input) with a
\* valid input, getHabits(userId) holds a habit with the input's title,
\* frequency and description and no completed date.
CreatedHabitListedAsTyped ==
  (event.kind = "repoCreate" /\ event.status = "fulfilled") =>
    LET input == event.data[1]
    IN Listed(event.data[2].userId, input.title, input.description,
              input.frequency) # {}

\* C8 (amended): after a successful createHabit(userId, input) with a valid
\* input, getHabits(userId) holds a habit with the input's trimmed title, its
\* frequency, its trimmed description ('' when the input has none) and no
\* completed date.
CreatedHabitListedTrimmed ==
  (event.kind = "repoCreate" /\ event.status = "fulfilled") =>
    LET input == event.data[1]
    IN \E h \in Listed(event.data[2].userId, Trim(input.title),
                       IF input.description = Undef THEN <<>>
                       ELSE Trim(input.description),
                       input.frequency) : h.id = event.id

\* C8 witness: a habit was created from a title with a space to trim.
CreatedFromPaddedTitle ==
  /\ event.kind = "repoCreate" /\ event.status = "fulfilled"
  /\ Trim(event.data[1].title) # event.data[1].title

\* C11: at no time is more than one listener registered, and it is the one
\* the effect's cleanup holds; a step removes no listener but that one, which
\* is then never registered again; a step that opens a listener opens a fresh
\* handle and leaves no other listener behind.
OneSubscriptionReleasedOnce ==
  [][/\ Cardinality(DOMAIN listeners) <= 1
     /\ DOMAIN listeners \subseteq {unsub}
     /\ Cardinality(DOMAIN listeners') <= 1
     /\ \A h \in DOMAIN listeners \ DOMAIN listeners' : h = unsub /\ unsub' # h
     /\ \A h \in DOMAIN listeners' \ DOMAIN listeners :
          h > nSub /\ DOMAIN listeners' = {h} /\ unsub' = h
     /\ \A h \in 1 .. nSub : h \notin DOMAIN listeners => h \notin DOMAIN listeners']_vars

\* C11 witness: a second subscription has been opened, the first one was
\* released in that step, and one listener is registered.
SecondSubscriptionOpen ==
  /\ event.kind = "session" /\ event.id = 1
  /\ nSub = 2 /\ DOMAIN listeners = {2}

\* C12: every snapshot applied to the list comes from the listener of the
\* current subscription, opened for the current user; the listener a session
\* change releases is gone with the snapshots it still had to deliver.
SnapshotsOnlyFromLiveSubscription ==
  [][/\ event'.kind = "snapshot" =>
          /\ event'.id = unsub /\ unsub \in DOMAIN listeners
          /\ listeners[unsub].uid = user
     /\ event'.kind = "session" => event'.id \notin DOMAIN listeners']_vars

\* C12 witness: a subscription was released while it still had a snapshot to
\* deliver.
ReleasedWithSnapshotInFlight ==
  /\ event.kind = "session" /\ event.id # 0
  /\ event.data # <<>>
  /\ event.id \notin DOMAIN listeners

\* C13 (as claimed): every habit of the local list belongs to the current
\* user.
ListOwnedBySessionUser ==
  \A i \in DOMAIN habits : habits[i].userId = user

\* C14: the step that runs updateHabit(id, updates) up to its await keeps the
\* length of the list, keeps every entry's id, createdAt and completedDates
\* where they were, and leaves every entry with another id as it was.
UpdateKeepsFrame ==
  [][(event'.kind = "update" /\ event'.status = "called") =>
       /\ Len(habits') = Len(habits)
       /\ \A i \in DOMAIN habits :
            /\ habits'[i].id = habits[i].id
            /\ habits'[i].createdAt = habits[i].createdAt
            /\ habits'[i].completedDates = habits[i].completedDates
            /\ habits[i].id # event'.id => habits'[i] = habits[i]]_vars

\* C14 witness: updateHabit has just rewritten, with a title among the
\* updates, one habit of a list that also holds a habit with another id.
UpdatedAmongOthers ==
  /\ event.kind = "update" /\ event.status = "called"
  /\ "title" \in DOMAIN event.data[1]
  /\ \E i, j \in DOMAIN habits :
       /\ habits[i].id = event.id /\ habits[i].title = event.data[1].title
       /\ habits[i].completedDates # <<>>
       /\ habits[j].id # event.id

\* C15: in the step that runs updateHabit / deleteHabit up to its await the
\* list already has the edit (every entry with the id carries the updates,
\* or no entry has the id and the others stay in order) while the repository
\* has not answered; the step in which the answer arrives edits nothing.
EditAppliedBeforeReply ==
  [][/\ (event'.kind = "update" /\ event'.status = "called") =>
          /\ \A i \in DOMAIN habits' :
               habits'[i].id = event'.id =>
                 \A f \in DOMAIN event'.data[1] : habits'[i][f] = event'.data[1][f]
          /\ \E t \in BagToSet(ops') :
               /\ t.kind = "update" /\ t.id = event'.id
               /\ t.phase = "call" /\ t.reply = "pending"
     /\ (event'.kind = "delete" /\ event'.status = "called") =>
          /\ \A i \in DOMAIN habits' : habits'[i].id # event'.id
          /\ habits' = SelectSeq(habits, LAMBDA habit : habit.id # event'.id)
          /\ \E t \in BagToSet(ops') :
               /\ t.kind = "delete" /\ t.id = event'.id
               /\ t.phase = "call" /\ t.reply = "pending"
     /\ \A t \in Pending :
          (/\ t.kind \in {"update", "delete"} /\ t.phase = "call"
           /\ t.reply = "pending" /\ Leaves(t)) => habits' = habits]_vars

\* C15 witness: deleteHabit has just emptied the list of a habit the remote
\* store still holds.
DeletedLocallyFirst ==
  /\ event.kind = "delete" /\ event.status = "called"
  /\ habits = <<>>
  /\ user # NoUser /\ HasDoc(remote, user, event.id)

\* C16 (as claimed): no two entries of the local list have the same id.
NoDuplicateIds ==
  \A i, j \in DOMAIN habits : habits[i].id = habits[j].id => i = j

\* C17 (as claimed): a duplicate of a created habit does not outlast the
\* traffic of its creation: once no createHabit is in flight and no listener
\* has a snapshot left to deliver, every id is listed at most once.
CreatedHabitListedOnceWhenSettled ==
  (/\ \A t \in Pending : t.kind # "create"
   /\ \A h \in DOMAIN listeners : listeners[h].queue = <<>>) =>
    \A id \in Ids : Cardinality({i \in DOMAIN habits : habits[i].id = id}) <= 1

\* C18: the step that opens a subscription for a user leaves the store
\* loading; the step that delivers a snapshot takes the oldest snapshot the
\* listener holds, leaves the list equal to it and the store not loading.
SnapshotReplacesList ==
  [][/\ nSub' = nSub + 1 => (user' # NoUser /\ loading')
     /\ event'.kind = "snapshot" =>
          /\ event'.id \in DOMAIN listeners
          /\ listeners[event'.id].queue # <<>>
          /\ habits' = Head(listeners[event'.id].queue)
          /\ listeners'[event'.id].queue = Tail(listeners[event'.id].queue)
          /\ ~loading']_vars

\* C18 witness: a snapshot of two habits has just been delivered to a store
\* that was loading a user's list.
SnapshotDelivered ==
  /\ event.kind = "snapshot" /\ user # NoUser
  /\ ~loading
  /\ Len(habits) = 2 /\ habits = getHabits(remote, user)

\* C19 (as claimed): a step takes error from set to null only if it is
\* clearError, a session change or the end of a successful re-fetch, and each
\* of these three leaves error null.
ErrorClearedOnlyByThree ==
  [][LET clears == \/ event'.kind = "clearError"
                   \/ event'.kind = "session"
                   \/ event'.resync = "ok"
     IN /\ (error # Null /\ error' = Null) => clears
        /\ clears => error' = Null]_vars

\* C20 (as claimed): when a createHabit, updateHabit or deleteHabit that the
\* repository failed has rejected, error is the message it rejected with.
ErrorIsThrownMessage ==
  LoggedInRejection({"create", "update", "delete"}) => error = event.msg

\* the message the claim gives for each code it names
FixedMessage ==
  ("permission-denied" :> "You do not have permission to perform this action.")
  @@ ("not-found" :> "The requested item was not found.")
  @@ ("already-exists" :> "This item already exists.")
  @@ ("resource-exhausted" :> "Too many requests. Please try again later.")
  @@ ("unavailable" :>
        "Service temporarily unavailable. Please check your connection.")

\* C23: a repository call the remote store failed rejects with the fixed
\* message of the error's code when the code is one of the five named, and
\* otherwise with the error's own message, or with 'Failed to <operation>.
\* Please try again.' when that message is empty.
ErrorMessageByCode ==
  (event.kind \in {"repoCreate", "repoUpdate"} /\ event.status = "rejected") =>
    LET err == event.data[1]
        operation == IF event.kind = "repoCreate" THEN "create habit"
                     ELSE "update habit"
    IN event.msg =
         IF err.code \in DOMAIN FixedMessage THEN FixedMessage[err.code]
         ELSE IF err.message # "" THEN err.message
         ELSE "Failed to " \o operation \o ". Please try again."

\* C23 witness: a call was rejected for an error of a code outside the five,
\* with the error's own message.
RejectedWithRawMessage ==
  /\ event.kind = "repoUpdate" /\ event.status = "rejected"
  /\ event.data[1].code \notin DOMAIN FixedMessage
  /\ event.msg = "request cancelled"

\* C24: what a successful updateHabit(userId, id, updates) sends is the
\* updates that are not undefined plus a server-time updatedAt; the stored
\* document then has the sent fields as sent and every other field as before.
UpdateSendsOnlyPresentFields ==
  (event.kind = "repoUpdate" /\ event.status = "fulfilled") =>
    LET updates == event.data[1]
        sent == event.data[2]
        before == event.data[3]
        present == {f \in DOMAIN updates :
                      IF f = "frequency" THEN updates[f] # "undefined"
                      ELSE updates[f] # Undef}
        after == DocOf(remote, before.userId, event.id)
    IN /\ DOMAIN sent = present \cup {"updatedAt"}
       /\ sent.updatedAt = ServerTimestamp
       /\ \A f \in present : sent[f] = updates[f]
       /\ DOMAIN after = DOMAIN before
       /\ \A f \in DOMAIN after :
            after[f] = IF f \in DOMAIN sent THEN sent[f] ELSE before[f]

\* C24 witness: an update with a title and an undefined description has been
\* stored: the title changed, the description did not.
UpdatedTitleKeptDescription ==
  /\ event.kind = "repoUpdate" /\ event.status = "fulfilled"
  /\ DOMAIN event.data[1] = {"title", "description"}
  /\ DocOf(remote, event.data[3].userId, event.id).title = <<"a", "a">>
  /\ DocOf(remote, event.data[3].userId, event.id).description = <<>>

\* C25 (as claimed): no document of the remote store and no habit of the
\* local list has a title that is empty once trimmed.
NoBlankTitles ==
  /\ \A u \in Users : \A i \in DOMAIN remote[u] : Trim(remote[u][i].title) # <<>>
  /\ \A i \in DOMAIN habits : Trim(habits[i].title) # <<>>

\* C27: a toggleCompletion(id, date) made with a user sends nothing to the
\* repository and leaves the remote store alone; it keeps the list's length,
\* every habit with another id and every other field of the habits with the
\* id; in those habits date changes sides and the other dates stay, in their
\* order.
ToggleChangesOnlyTheDate ==
  [][(event'.kind = "toggle" /\ event'.status = "fulfilled") =>
       /\ UNCHANGED <<remote, nextId, listeners, ops, rtog>>
       /\ Len(habits') = Len(habits)
       /\ \A i \in DOMAIN habits :
            IF habits[i].id # event'.id THEN habits'[i] = habits[i]
            ELSE /\ DOMAIN habits'[i] = DOMAIN habits[i]
                 /\ \A f \in DOMAIN habits[i] \ {"completedDates"} :
                      habits'[i][f] = habits[i][f]
                 /\ Filter(habits'[i].completedDates, tog'.date)
                      = Filter(habits[i].completedDates, tog'.date)
                 /\ Includes(habits'[i].completedDates, tog'.date)
                      = ~Includes(habits[i].completedDates, tog'.date)]_vars

\* C27 witness: a toggle has just taken its date out of a habit that keeps
\* two other dates.
ToggledAmongOtherDates ==
  /\ event.kind = "toggle" /\ event.status = "fulfilled"
  /\ tog.n = 1 /\ TRUE \in Range(tog.local)
  /\ \E i \in DOMAIN habits :
       /\ habits[i].id = tog.id
       /\ habits[i].completedDates = <<"2024-01-02", "2023-12-31">>

\* C26 (as claimed): with a user, once no store operation and no repository
\* toggle is in flight and no listener has a snapshot left to deliver, the
\* local list is the user's remote list.
SettledListIsRemoteList ==
  (/\ user # NoUser /\ ~loading
   /\ ops = EmptyBag /\ rtog = IdleToggle
   /\ \A h \in DOMAIN listeners : listeners[h].queue = <<>>) =>
    habits = getHabits(remote, user)

\* C28 (as claimed): while the store has no user, the local list is empty.
EmptyWhileSignedOut ==
  (mounted /\ user = NoUser) => habits = <<>>

\* C29 (as claimed): once the listener of the current subscription has
\* failed and no store operation is in flight, the store is not loading and
\* its error is set.
SubscriptionFailureSurfaced ==
  (/\ user # NoUser /\ unsub \in DOMAIN listeners
   /\ ~listeners[unsub].live
   /\ ops = EmptyBag) =>
    (~loading /\ error # Null)

\* C21: the step that sends a signUp / signIn / signOut to the identity
\* provider leaves error null, and the provider has not acted yet; the step
\* in which such a call ends, fulfilled or rejected, leaves loading false.
SignCallsClearErrorAndEndIdle ==
  [][/\ (event'.kind \in AuthKinds /\ event'.status = "called") =>
          /\ auth'.error = Null
          /\ auth'.idp = auth.idp
          /\ \E t \in BagToSet(auth'.ops) :
               /\ t.kind = event'.kind /\ t.reply = "pending"
               /\ CopiesIn(t, auth'.ops) = CopiesIn(t, auth.ops) + 1
     /\ (event'.kind \in AuthKinds /\ event'.status \in {"fulfilled", "rejected"}) =>
          ~auth'.loading]_vars

\* C21 witness: the second call made, a signIn, has just been rejected.
SignInRejected ==
  /\ event.kind = "signIn" /\ event.status = "rejected"
  /\ calls = 2
  /\ ~auth.loading /\ auth.error = event.msg

\* the step sets user only on a sign-in that succeeded or on word from the
\* identity provider
UserSetOnlyBySignIn ==
  (auth'.user # NoUser /\ auth'.user # auth.user) =>
    \/ event'.kind \in {"signUp", "signIn"} /\ event'.status = "fulfilled"
    \/ event'.kind = "authState"

\* C22 (as claimed): user becomes non-null only in a successful signUp /
\* signIn or an identity change; a failed signUp / signIn ends with user
\* null, error the failure message, and rejects with it; a successful
\* signOut ends with user null.
FailedSignInEndsSignedOut ==
  [][/\ UserSetOnlyBySignIn
     /\ (event'.kind \in {"signUp", "signIn"} /\ event'.status = "rejected") =>
          /\ auth'.user = NoUser
          /\ auth'.error = event'.msg /\ event'.msg # Null
     /\ (event'.kind = "signOut" /\ event'.status = "fulfilled") =>
          auth'.user = NoUser]_vars

\* C22 (amended): as claimed, but a failed signUp / signIn leaves user as it
\* was.
FailedSignInKeepsUser ==
  [][/\ UserSetOnlyBySignIn
     /\ (event'.kind \in {"signUp", "signIn"} /\ event'.status = "rejected") =>
          /\ auth'.user = auth.user
          /\ auth'.error = event'.msg /\ event'.msg # Null
     /\ (event'.kind = "signOut" /\ event'.status = "fulfilled") =>
          auth'.user = NoUser]_vars

\* C22 witness: a signIn has just been rejected while a user was signed in.
SignInFailedWhileSignedIn ==
  /\ event.kind = "signIn" /\ event.status = "rejected"
  /\ auth.user # NoUser /\ auth.idp = auth.user
  /\ auth.error = event.msg

\* C30 (as claimed): loading is true whenever a signUp, signIn or signOut is
\* in flight.
LoadingWhileSigning ==
  auth.ops # EmptyBag => auth.loading

====
